---- MODULE Spec2Model ----
(***************************************************************************)
(* Model of DiverseSelector/feature.py: the descriptor and fingerprint     *)
(* generators.  A behaviour is the life of one generator object: it is     *)
(* constructed, and then its methods (and the static helpers, called on    *)
(* the object's molecules) are called any number of times.  Strings are    *)
(* sequences of one-character strings, so that lower(), upper(),           *)
(* startswith() and f-string formatting are computed, not assumed.         *)
(***************************************************************************)
EXTENDS Integers, Sequences, FiniteSets, TLC

VARIABLES
    self,       \* the generator object: a record of its attributes, or NoObject
    outcome,    \* what the most recent call returned or raised
    last,       \* the most recent call: its name and arguments
    tmpExists,  \* whether padelpy_out_tmp.sdf exists in the working directory
    descList    \* rdkit's Descriptors.descList: the registry, a sequence of names

vars == <<self, outcome, last, tmpExists, descList>>

----------------------------------------------------------------------------
(* Bounds of the model *)

\* longest molecule list
MaxMols == 2
\* number of fragment descriptors ("fr_...") in a registry
MaxFrag == 2

----------------------------------------------------------------------------
(* Strings *)

UpperChars == <<"A","B","C","D","E","F","G","H","I","J","K","L","M",
                "N","O","P","Q","R","S","T","U","V","W","X","Y","Z">>
LowerChars == <<"a","b","c","d","e","f","g","h","i","j","k","l","m",
                "n","o","p","q","r","s","t","u","v","w","x","y","z">>

\* the lower-case letter of each upper-case letter, and the converse
LowerOf == [c \in { UpperChars[i] : i \in 1..26 } |->
               LowerChars[CHOOSE i \in 1..26 : UpperChars[i] = c]]
UpperOf == [c \in { LowerChars[i] : i \in 1..26 } |->
               UpperChars[CHOOSE i \in 1..26 : LowerChars[i] = c]]

char_lower(c) == IF c \in DOMAIN LowerOf THEN LowerOf[c] ELSE c

char_upper(c) == IF c \in DOMAIN UpperOf THEN UpperOf[c] ELSE c

\* str.lower()
lower(s) == [i \in 1..Len(s) |-> char_lower(s[i])]

\* str.upper()
upper(s) == [i \in 1..Len(s) |-> char_upper(s[i])]

\* str.startswith(prefix)
startswith(s, prefix) ==
    /\ Len(s) >= Len(prefix)
    /\ \A i \in 1..Len(prefix) : s[i] = prefix[i]

\* whether sub occurs in s
Contains(s, sub) ==
    \E k \in 0..(Len(s) - Len(sub)) :
        \A i \in 1..Len(sub) : s[k + i] = sub[i]

DigitChars == <<"0","1","2","3","4","5","6","7","8","9">>

\* a three-digit decimal numeral
Numeral(n) == << DigitChars[((n \div 100) % 10) + 1],
                 DigitChars[((n \div 10) % 10) + 1],
                 DigitChars[(n % 10) + 1] >>

\* the elements of a sequence
Range(s) == { s[i] : i \in 1..Len(s) }

\* sequences over S of length at most n
SeqUpTo(S, n) == UNION { [1..k -> S] : k \in 0..n }

----------------------------------------------------------------------------
(* Molecules *)

NameKey == <<"_","N","a","m","e">>
IdKey   == <<"I","D">>

\* A molecule: its properties (a dict), its canonical SMILES, and whether
\* the toolkit's per-molecule functions raise on it.
Molecules ==
    { [id |-> 1, props |-> (NameKey :> <<"e","t","h">>),
       smiles |-> <<"C","C","O">>, malformed |-> FALSE],
      [id |-> 2, props |-> (IdKey :> <<"7">>),
       smiles |-> <<"C","C">>, malformed |-> FALSE],
      [id |-> 3, props |-> (NameKey :> <<"b","a","d">>) @@ (IdKey :> <<"9">>),
       smiles |-> <<"C","#","C">>, malformed |-> TRUE] }

MolLists == SeqUpTo(Molecules, MaxMols)

\* rdkit Mol.GetPropsAsDict(): called without arguments it leaves out the
\* private properties, those whose key starts with an underscore
GetPropsAsDict(mol) ==
    LET keys == { k \in DOMAIN mol.props : ~startswith(k, <<"_">>) }
    IN  [k \in keys |-> mol.props[k]]

\* dict.get(key): <<value>>, or <<>> for None
DictGet(d, key) == IF key \in DOMAIN d THEN <<d[key]>> ELSE <<>>

\* rdkit Mol.GetProp(key)
GetProp(mol, key) == mol.props[key]

\* rdkit Chem.MolToSmiles(mol)
MolToSmiles(mol) == mol.smiles

----------------------------------------------------------------------------
(* Results of calls *)

NoObject == [class |-> "none"]
NoCall   == [op |-> "none"]
Nothing  == [kind |-> "none"]

Raise(exc, msg) == [kind |-> "raise", exc |-> exc, msg |-> msg]

\* a pandas.DataFrame: row index, column names, rows of values
DataFrame(index, columns, rows) ==
    [kind |-> "table", index |-> index, columns |-> columns, rows |-> rows]

\* the default index of a DataFrame
RangeIndex(n) == [i \in 1..n |-> i - 1]

\* the exception a toolkit function raises on a malformed molecule
MolError(mol) == Raise("MolError", mol.smiles)

\* the first malformed molecule of a list that holds one
FirstMalformed(mols) ==
    mols[CHOOSE i \in 1..Len(mols) :
            /\ mols[i].malformed
            /\ \A j \in 1..(i - 1) : ~mols[j].malformed]

AnyMalformed(mols) == \E i \in 1..Len(mols) : mols[i].malformed

----------------------------------------------------------------------------
(* The rdkit descriptor registry, Descriptors.descList *)

\* the slice start hard-coded in rdkit_fragment_descriptors
FragStart == 115

FragPrefix == <<"f","r","_">>
IpcName    == <<"I","p","c">>

\* the i-th descriptor that is not a fragment count; the third is "Ipc"
PlainName(i) == IF i = 3 THEN IpcName ELSE <<"d">> \o Numeral(i)

\* the i-th fragment-count descriptor
FragName(i) == FragPrefix \o Numeral(i)

\* A registry as rdkit builds it: k plain descriptors, then the Fragments
\* module's f fragment counts.
Registry(k, f) ==
    [i \in 1..k |-> PlainName(i)] \o [i \in 1..f |-> FragName(i)]

\* the registries of the rdkit versions the module may be run with
Registries ==
    { Registry(k, MaxFrag) : k \in { FragStart - 1, FragStart, FragStart + 1 } }

\* what a descriptor function returns for a molecule
DescValue(mol, name, avg) == [mol |-> mol.id, fn |-> name, avg |-> avg]

\* the cell mordred fills in when a descriptor fails on a molecule
MissingValue(mol, name) == [mol |-> mol.id, fn |-> name, missing |-> TRUE]

\* a Python slice s[n:], n counted from 0
SliceFrom(s, n) == IF n >= Len(s) THEN <<>> ELSE SubSeq(s, n + 1, Len(s))

----------------------------------------------------------------------------
(* Python calls *)

\* Binding a call's arguments to a function with the named parameters and a
\* trailing **kwargs: npos positional arguments, and the keywords kwnames.
\* <<>> when the call binds, else the TypeError it raises.
BindError(params, npos, kwnames) ==
    IF npos > Len(params)
    THEN << Raise("TypeError", "too many positional arguments") >>
    ELSE IF \E i \in 1..npos : params[i] \in kwnames
    THEN << Raise("TypeError", "multiple values for argument") >>
    ELSE <<>>

\* a comprehension that skips the calls that raise
Comprehension_skipping(results) ==
    [kind |-> "list",
     items |-> LET ok == SelectSeq(results, LAMBDA r : r.kind # "raise")
               IN  [i \in 1..Len(ok) |-> ok[i].val]]

\* the result of a list comprehension over calls: the first exception
\* raised, else the list of the values returned
Comprehension(results) ==
    IF \E i \in 1..Len(results) : results[i].kind = "raise"
    THEN results[CHOOSE i \in 1..Len(results) :
                    /\ results[i].kind = "raise"
                    /\ \A j \in 1..(i - 1) : results[j].kind # "raise"]
    ELSE [kind |-> "list", items |-> [i \in 1..Len(results) |-> results[i].val]]

Value(v) == [kind |-> "value", val |-> v]

\* the sets of extra keyword arguments a caller passes
KwargSets == { {}, {"mol"}, {"verbose"} }

\* what the environment does to a call of an external backend
Faults == { "none", "open", "tool" }

\* the faults that can reach a call: only the mordred and padel backends
\* leave the process, and only padel opens a file
FaultsOf(desc_type) ==
    IF lower(desc_type) = <<"p","a","d","e","l">> THEN Faults
    ELSE IF lower(desc_type) = <<"m","o","r","d","r","e","d">> THEN { "none", "tool" }
    ELSE { "none" }

----------------------------------------------------------------------------
(* DescriptorGenerator *)

\* _rdkit_descriptors_low(mol, desc_list, ipc_avg, **kwargs), its body
rdkit_descriptors_low(mol, desc_list, ipc_avg, kwargs) ==
    IF "mol" \in kwargs
    THEN Raise("DeprecationWarning", "Mol is being phased out as a parameter")
    ELSE IF mol.malformed /\ Len(desc_list) > 0
    THEN MolError(mol)
    ELSE Value([j \in 1..Len(desc_list) |->
                  DescValue(mol, desc_list[j], desc_list[j] = IpcName /\ ipc_avg)])

\* the call in rdkit_descriptors:
\*   _rdkit_descriptors_low(mol, desc_list=desc_list, ipc_avg=ipc_avg, *kwargs)
\* *kwargs unpacks the keys of the dict as positional arguments
call_rdkit_descriptors_low(mol, desc_list, ipc_avg, kwargs) ==
    LET err == BindError(<<"mol", "desc_list", "ipc_avg">>,
                         1 + Cardinality(kwargs), {"desc_list", "ipc_avg"})
    IN  IF err # <<>> THEN err[1]
        ELSE rdkit_descriptors_low(mol, desc_list, ipc_avg, {})

\* the filter with the flag read the wrong way round
KeepDescriptor_inverted(descriptor, use_fragment) ==
    ~(use_fragment = TRUE /\ startswith(descriptor, FragPrefix))

\* the registry entries rdkit_descriptors keeps
KeepDescriptor(descriptor, use_fragment) ==
    ~(use_fragment = FALSE /\ startswith(descriptor, FragPrefix))

\* DescriptorGenerator.rdkit_descriptors(mols, use_fragment, ipc_avg, **kwargs)
rdkit_descriptors(mols, use_fragment, ipc_avg, kwargs) ==
    LET descriptor_types ==
            SelectSeq(descList, LAMBDA d : KeepDescriptor(d, use_fragment))
        desc_list == descriptor_types
        arr_features ==
            Comprehension([i \in 1..Len(mols) |->
                call_rdkit_descriptors_low(mols[i], desc_list, ipc_avg, kwargs)])
    IN  IF arr_features.kind = "raise" THEN arr_features
        ELSE DataFrame(RangeIndex(Len(mols)), descriptor_types, arr_features.items)

\* the fragment table filled for all molecules but the last
rdkit_fragment_descriptors_short(mols) ==
    LET feature_names == SliceFrom(descList, FragStart)
    IN  DataFrame(RangeIndex(Len(mols) - 1), feature_names,
            [i \in 1..(Len(mols) - 1) |-> [j \in 1..Len(feature_names) |->
                DescValue(mols[i], feature_names[j], FALSE)]])

\* DescriptorGenerator.rdkit_fragment_descriptors(mols)
rdkit_fragment_descriptors(mols) ==
    LET feature_names == SliceFrom(descList, FragStart)
        frag_features ==
            Comprehension([i \in 1..Len(mols) |->
                IF mols[i].malformed /\ Len(feature_names) > 0
                THEN MolError(mols[i])
                ELSE Value([j \in 1..Len(feature_names) |->
                              DescValue(mols[i], feature_names[j], FALSE)])])
    IN  IF frag_features.kind = "raise" THEN frag_features
        ELSE DataFrame(RangeIndex(Len(mols)), feature_names, frag_features.items)

\* a sample of mordred's descriptor registry
MordredColumns == << <<"A","B","C">>, <<"n","A","t","o","m">> >>

\* DescriptorGenerator.mordred_descriptors(mols): mordred fills a cell with
\* a missing value when a descriptor fails on a molecule, unless the
\* calculation as a whole fails
mordred_descriptors(mols, fault) ==
    IF fault = "tool" THEN Raise("MordredError", "calculation failed")
    ELSE DataFrame(RangeIndex(Len(mols)), MordredColumns,
            [i \in 1..Len(mols) |-> [j \in 1..Len(MordredColumns) |->
                IF mols[i].malformed
                THEN MissingValue(mols[i], MordredColumns[j])
                ELSE DescValue(mols[i], MordredColumns[j], FALSE)]])

\* a sample of the descriptors PaDEL reports
PadelColumns == << <<"n","A","c","i","d">>, <<"A","L","o","g","P">> >>

\* padelpy's from_sdf on a file holding the molecules written: one dict per
\* molecule of the file, in the file's order
from_sdf(written) ==
    [i \in 1..Len(written) |-> [j \in 1..Len(PadelColumns) |->
        DescValue(written[i], PadelColumns[j], FALSE)]]

\* DescriptorGenerator.padelpy_descriptors(mols): the outcome, and whether
\* padelpy_out_tmp.sdf exists afterwards (tmp: whether it existed before)
padelpy_descriptors(mols, fault, tmp) ==
    IF fault = "open"
    THEN \* Chem.SDWriter cannot create the file
         [out |-> Raise("OSError", "cannot open padelpy_out_tmp.sdf"), tmp |-> tmp]
    ELSE IF AnyMalformed(mols)
    THEN \* writer.write(mol) raises; the file was created by SDWriter
         [out |-> MolError(FirstMalformed(mols)), tmp |-> TRUE]
    ELSE IF fault = "tool"
    THEN \* from_sdf raises; os.remove is not reached
         [out |-> Raise("RuntimeError", "PaDEL-Descriptor failed"), tmp |-> TRUE]
    ELSE \* os.remove("padelpy_out_tmp.sdf")
         [out |-> DataFrame(RangeIndex(Len(mols)),
                            IF Len(mols) = 0 THEN <<>> ELSE PadelColumns,
                            from_sdf(mols)),
          tmp |-> FALSE]

S_mordred    == <<"m","o","r","d","r","e","d">>
S_padel      == <<"p","a","d","e","l">>
S_rdkit      == <<"r","d","k","i","t">>
S_rdkit_frag == <<"r","d","k","i","t","_","f","r","a","g">>

UnknownDescriptorType == <<"U","n","k","n","o","w","n"," ","d","e","s","c","r","i","p","t",
                           "o","r"," ","t","y","p","e"," ">>

\* the error message with the selector normalised
unknown_descriptor_type_lowered(desc_type) ==
    Raise("ValueError", UnknownDescriptorType \o lower(desc_type) \o <<".">>)

\* raise ValueError(f"Unknown descriptor type {self.desc_type}.")
unknown_descriptor_type(desc_type) ==
    Raise("ValueError", UnknownDescriptorType \o desc_type \o <<".">>)

\* DescriptorGenerator.compute_descriptor(**kwargs): the outcome and the
\* temporary file's existence afterwards
compute_descriptor(obj, kwargs, fault, tmp) ==
    IF lower(obj.desc_type) = S_mordred
    THEN [out |-> mordred_descriptors(obj.mols, fault), tmp |-> tmp]
    ELSE IF lower(obj.desc_type) = S_padel
    THEN padelpy_descriptors(obj.mols, fault, tmp)
    ELSE IF lower(obj.desc_type) = S_rdkit
    THEN \* self.rdkit_descriptors(self.mols, use_fragment=..., ipc_avg=..., *kwargs)
         LET err == BindError(<<"mols", "use_fragment", "ipc_avg">>,
                              1 + Cardinality(kwargs), {"use_fragment", "ipc_avg"})
         IN  [out |-> IF err # <<>> THEN err[1]
                      ELSE rdkit_descriptors(obj.mols, obj.use_fragment, obj.ipc_avg, {}),
              tmp |-> tmp]
    ELSE IF lower(obj.desc_type) = S_rdkit_frag
    THEN [out |-> rdkit_fragment_descriptors(obj.mols), tmp |-> tmp]
    ELSE [out |-> unknown_descriptor_type(obj.desc_type), tmp |-> tmp]

\* the desc_type values callers pass
DescTypes ==
    { S_mordred, <<"M","o","r","d","r","e","d">>,
      S_padel, <<"P","a","D","E","L">>,
      S_rdkit, <<"R","D","K","i","t">>,
      S_rdkit_frag, <<"R","D","K","I","T","_","F","R","A","G">>,
      <<"R","D","K","i","t","2","D">> }

\* the values of use_fragment and ipc_avg callers pass: the defaults, and
\* on the one path that reads them every value
FlagsOf(desc_type) ==
    IF lower(desc_type) = S_rdkit THEN BOOLEAN \X BOOLEAN ELSE { <<TRUE, TRUE>> }

\* DescriptorGenerator.__init__
DescriptorGenerator_init(mols, desc_type, use_fragment, ipc_avg) ==
    /\ self = NoObject
    /\ <<use_fragment, ipc_avg>> \in FlagsOf(desc_type)
    /\ self' = [class |-> "DescriptorGenerator", mols |-> mols, desc_type |-> desc_type,
                use_fragment |-> use_fragment, ipc_avg |-> ipc_avg]
    /\ outcome' = Nothing
    /\ last' = [op |-> "DescriptorGenerator.__init__"]
    /\ UNCHANGED <<tmpExists, descList>>

\* a call of self.compute_descriptor(**kwargs)
ComputeDescriptor(kwargs, fault) ==
    /\ self.class = "DescriptorGenerator"
    /\ fault \in FaultsOf(self.desc_type)
    /\ LET r == compute_descriptor(self, kwargs, fault, tmpExists)
       IN  /\ outcome' = r.out
           /\ tmpExists' = r.tmp
    /\ last' = [op |-> "compute_descriptor", kwargs |-> kwargs, fault |-> fault]
    /\ UNCHANGED <<self, descList>>

\* a direct call of the static method of an rdkit generator, as
\*   rdkit_descriptors(self.mols, use_fragment=self.use_fragment,
\*                     ipc_avg=self.ipc_avg, **kwargs)
RdkitDescriptors(kwargs) ==
    /\ self.class = "DescriptorGenerator"
    /\ lower(self.desc_type) = S_rdkit
    /\ outcome' = rdkit_descriptors(self.mols, self.use_fragment, self.ipc_avg, kwargs)
    /\ last' = [op |-> "rdkit_descriptors", kwargs |-> kwargs]
    /\ UNCHANGED <<self, tmpExists, descList>>

\* a direct call of the module function on one molecule of an rdkit
\* generator, with the whole registry, as
\*   _rdkit_descriptors_low(mol, desc_list, ipc_avg=self.ipc_avg, **kwargs)
RdkitDescriptorsLow(i, kwargs) ==
    /\ self.class = "DescriptorGenerator"
    /\ lower(self.desc_type) = S_rdkit
    /\ i \in 1..Len(self.mols)
    /\ outcome' = rdkit_descriptors_low(self.mols[i], descList, self.ipc_avg, kwargs)
    /\ last' = [op |-> "_rdkit_descriptors_low", kwargs |-> kwargs, mol |-> i]
    /\ UNCHANGED <<self, tmpExists, descList>>

----------------------------------------------------------------------------
(* FingerprintGenerator *)

\* the length EncodeSECFPMol folds to when it is given none
SECFPLength == 2048
\* the length of the bit vector GenMACCSKeys returns
MACCSLength == 167

S_SECFP          == <<"S","E","C","F","P">>
S_ECFP           == <<"E","C","F","P">>
S_Morgan         == <<"M","o","r","g","a","n">>
S_MORGAN         == <<"M","O","R","G","A","N">>
S_RDKFingerprint == <<"R","D","K","F","i","n","g","e","r","p","r","i","n","t">>
S_RDKFINGERPRINT == <<"R","D","K","F","I","N","G","E","R","P","R","I","N","T">>
S_MaCCSKeys      == <<"M","a","C","C","S","K","e","y","s">>
S_MACCSKEYS      == <<"M","A","C","C","S","K","E","Y","S">>

\* the list compute_fingerprint tests fp_type.upper() against
SupportedUpper == { S_SECFP, S_ECFP, S_MORGAN, S_RDKFINGERPRINT, S_MACCSKEYS }

\* the selectors rdkit_fingerprint_low has a branch for
CanonicalFpTypes == { S_SECFP, S_ECFP, S_Morgan, S_RDKFingerprint, S_MaCCSKeys }

\* an ExplicitBitVect: its length, and what it encodes
BitVect(len, enc, mol, params) ==
    [len |-> len, enc |-> enc, mol |-> mol.id, params |-> params]

NotSupportedFingerprint == <<" ","i","s"," ","n","o","t"," ","a","n"," ","s","u","p","p",
                             "o","r","t","e","d"," ","f","i","n","g","e","r","p","r","i",
                             "n","t"," ","t","y","p","e",".">>

NotImplementedYet == <<" ","n","o","t"," ","i","m","p","l","e","m","e","n","t","e","d",
                       " ","y","e","t",".">>

\* FingerprintGenerator.rdkit_fingerprint_low(mol, fp_type, n_bits, ...)
rdkit_fingerprint_low(mol, fp_type, n_bits, radius, min_radius, random_seed, rings, isomeric, kekulize) ==
    IF fp_type \notin CanonicalFpTypes
    THEN Raise("NotImplementedError", fp_type \o NotImplementedYet)
    ELSE IF mol.malformed
    THEN MolError(mol)
    ELSE IF fp_type = S_SECFP
    THEN \* MHFPEncoder(n_bits, random_seed): n_bits is the number of
         \* permutations; EncodeSECFPMol is given no length
         Value(BitVect(SECFPLength, "SECFP", mol,
                  [n_permutations |-> n_bits, seed |-> random_seed, radius |-> radius,
                   rings |-> rings, isomeric |-> isomeric, kekulize |-> kekulize,
                   min_radius |-> min_radius]))
    ELSE IF fp_type = S_ECFP
    THEN Value(BitVect(n_bits, "Morgan", mol,
                  [radius |-> radius, useChirality |-> isomeric, useFeatures |-> FALSE]))
    ELSE IF fp_type = S_Morgan
    THEN Value(BitVect(n_bits, "Morgan", mol,
                  [radius |-> radius, useChirality |-> isomeric, useFeatures |-> TRUE]))
    ELSE IF fp_type = S_RDKFingerprint
    THEN Value(BitVect(n_bits, "RDKFingerprint", mol, [minPath |-> 1, maxPath |-> 10]))
    ELSE Value(BitVect(MACCSLength, "MACCSkeys", mol, [keys |-> 166]))

\* the molecule names FingerprintGenerator.__init__ computes
mol_names_of(mols) ==
    [i \in 1..Len(mols) |->
        IF DictGet(GetPropsAsDict(mols[i]), NameKey) = <<>>
        THEN MolToSmiles(mols[i])
        ELSE GetProp(mols[i], NameKey)]

\* FingerprintGenerator.compute_fingerprint()
compute_fingerprint(obj) ==
    IF upper(obj.fp_type) \in SupportedUpper
    THEN LET fps == Comprehension([i \in 1..Len(obj.mols) |->
                        rdkit_fingerprint_low(obj.mols[i], obj.fp_type, obj.n_bits,
                            obj.radius, obj.min_radius, obj.random_seed, obj.rings,
                            obj.isomeric, obj.kekulize)])
         IN  IF fps.kind = "raise" THEN fps
             ELSE \* pd.DataFrame(np.array(fps), index=self.mol_names); an
                  \* empty array is one-dimensional and makes one column
                  DataFrame(obj.mol_names,
                            RangeIndex(IF Len(fps.items) = 0 THEN 1 ELSE fps.items[1].len),
                            fps.items)
    ELSE \* raise ValueError(f"{self.desc_type} is not an supported ...")
         IF "desc_type" \in DOMAIN obj
         THEN Raise("ValueError", obj.desc_type \o NotSupportedFingerprint)
         ELSE Raise("AttributeError", "no attribute desc_type")

\* the fp_type values callers pass
FpTypes ==
    CanonicalFpTypes \cup { <<"s","e","c","f","p">>, S_MORGAN, <<"E","3","F","P">> }

\* the n_bits values callers pass
NBits == { 167, 1024, 2048 }

\* FingerprintGenerator.__init__, the other parameters left at their defaults
FingerprintGenerator_init(mols, fp_type, n_bits) ==
    /\ self = NoObject
    /\ self' = [class |-> "FingerprintGenerator", mols |-> mols, fp_type |-> fp_type,
                n_bits |-> n_bits, radius |-> 3, min_radius |-> 1,
                random_seed |-> 12345, rings |-> TRUE, isomeric |-> TRUE,
                kekulize |-> FALSE, mol_names |-> mol_names_of(mols)]
    /\ outcome' = Nothing
    /\ last' = [op |-> "FingerprintGenerator.__init__"]
    /\ UNCHANGED <<tmpExists, descList>>

\* a call of self.compute_fingerprint()
ComputeFingerprint ==
    /\ self.class = "FingerprintGenerator"
    /\ outcome' = compute_fingerprint(self)
    /\ last' = [op |-> "compute_fingerprint"]
    /\ UNCHANGED <<self, tmpExists, descList>>

\* a direct call of the static method on one molecule of the generator, as
\*   rdkit_fingerprint_low(mol, fp_type=self.fp_type, n_bits=self.n_bits, ...)
RdkitFingerprintLow(i) ==
    /\ self.class = "FingerprintGenerator"
    /\ i \in 1..Len(self.mols)
    /\ outcome' = rdkit_fingerprint_low(self.mols[i], self.fp_type, self.n_bits,
                      self.radius, self.min_radius, self.random_seed, self.rings,
                      self.isomeric, self.kekulize)
    /\ last' = [op |-> "rdkit_fingerprint_low", mol |-> i]
    /\ UNCHANGED <<self, tmpExists, descList>>

----------------------------------------------------------------------------
Init ==
    /\ self = NoObject
    /\ outcome = Nothing
    /\ last = NoCall
    /\ tmpExists = FALSE
    /\ descList \in Registries

Next ==
    \/ \E mols \in MolLists, desc_type \in DescTypes, use_fragment, ipc_avg \in BOOLEAN :
          DescriptorGenerator_init(mols, desc_type, use_fragment, ipc_avg)
    \/ \E kwargs \in KwargSets, fault \in Faults : ComputeDescriptor(kwargs, fault)
    \/ \E kwargs \in KwargSets : RdkitDescriptors(kwargs)
    \/ \E i \in 1..MaxMols, kwargs \in KwargSets : RdkitDescriptorsLow(i, kwargs)
    \/ \E mols \in MolLists, fp_type \in FpTypes, n_bits \in NBits :
          FingerprintGenerator_init(mols, fp_type, n_bits)
    \/ ComputeFingerprint
    \/ \E i \in 1..MaxMols : RdkitFingerprintLow(i)

Spec == Init /\ [][Next]_vars

----------------------------------------------------------------------------
(* The properties *)

DescriptorSelectors == { S_mordred, S_padel, S_rdkit, S_rdkit_frag }

\* compute_descriptor was the last call, on a generator of the given family
DidDescriptor(family) ==
    /\ last.op = "compute_descriptor"
    /\ lower(self.desc_type) = family

DidFingerprint == last.op = "compute_fingerprint"

\* the name a molecule was given, else its canonical SMILES
NameOrSmiles(mol) ==
    IF NameKey \in DOMAIN mol.props THEN mol.props[NameKey] ELSE mol.smiles

\* C1: compute_fingerprint on a generator whose fp_type, upper-cased, is
\* none of the five supported names raises ValueError and returns no table.
C1_UnknownFingerprintIsValueError ==
    (DidFingerprint /\ upper(self.fp_type) \notin SupportedUpper)
        => (outcome.kind = "raise" /\ outcome.exc = "ValueError")

\* C2: after every call of the padel path, whether it returned or raised,
\* padelpy_out_tmp.sdf does not exist.
C2_NoTemporaryFileLeft ==
    DidDescriptor(S_padel) => ~tmpExists

\* C3: the row index of the fingerprint table holds, at position i, the
\* _Name of the i-th molecule when it has one, else its canonical SMILES.
C3_IndexIsNameElseSmiles ==
    (DidFingerprint /\ outcome.kind = "table")
        => /\ Len(outcome.index) = Len(self.mols)
           /\ \A i \in 1..Len(self.mols) : outcome.index[i] = NameOrSmiles(self.mols[i])

\* C4: for a non-empty list of well-formed molecules and each of the five
\* supported selectors, the fingerprint table has n_bits columns and one
\* row per molecule.
C4_FingerprintHasNBitsColumns ==
    (/\ DidFingerprint
     /\ self.fp_type \in CanonicalFpTypes
     /\ Len(self.mols) > 0
     /\ ~AnyMalformed(self.mols))
        => /\ outcome.kind = "table"
           /\ Len(outcome.columns) = self.n_bits
           /\ Len(outcome.rows) = Len(self.mols)

\* C5: for a non-empty molecule list and each of the four descriptor
\* selectors in any letter case, the table compute_descriptor returns has one
\* row per molecule, row i holding the descriptors of the i-th molecule; and
\* it does return a table when nothing fails and no extra keyword is passed.
C5_OneRowPerMolecule ==
    (/\ last.op = "compute_descriptor"
     /\ lower(self.desc_type) \in DescriptorSelectors
     /\ Len(self.mols) > 0)
        => /\ outcome.kind = "table" =>
                /\ Len(outcome.rows) = Len(self.mols)
                /\ \A i \in 1..Len(self.mols) :
                      /\ Len(outcome.rows[i]) = Len(outcome.columns)
                      /\ \A j \in 1..Len(outcome.columns) :
                            /\ outcome.rows[i][j].mol = self.mols[i].id
                            /\ outcome.rows[i][j].fn = outcome.columns[j]
           /\ (last.kwargs = {} /\ last.fault = "none" /\ ~AnyMalformed(self.mols))
                => outcome.kind = "table"

C5_Witness ==
    /\ last.op = "compute_descriptor"
    /\ lower(self.desc_type) = S_rdkit_frag
    /\ self.desc_type # S_rdkit_frag
    /\ Len(self.mols) = 2
    /\ self.mols[1] # self.mols[2]
    /\ outcome.kind = "table"
    /\ Len(outcome.columns) > 0

\* C6: the columns of the rdkit_frag table are exactly the registry entries
\* whose name starts with "fr_", in registry order.
C6_FragmentColumnsAreFrEntries ==
    (DidDescriptor(S_rdkit_frag) /\ outcome.kind = "table")
        => outcome.columns = SelectSeq(descList, LAMBDA d : startswith(d, FragPrefix))

\* C7: when the legacy keyword mol is among the extra keyword arguments of
\* the rdkit descriptor path, at whichever of its three levels the call
\* enters, the call raises DeprecationWarning.
C7_LegacyKeywordRaisesDeprecation ==
    (/\ \/ DidDescriptor(S_rdkit)
        \/ last.op = "rdkit_descriptors"
        \/ last.op = "_rdkit_descriptors_low"
     /\ "mol" \in last.kwargs)
        => (outcome.kind = "raise" /\ outcome.exc = "DeprecationWarning")

\* the positions of the entries of columns that are not fragment counts
PlainPositions(columns) ==
    SelectSeq([k \in 1..Len(columns) |-> k],
              LAMBDA k : ~startswith(columns[k], FragPrefix))

\* C8: for the rdkit selector, the table made with use_fragment=False is
\* the table made with use_fragment=True with exactly the "fr_" columns
\* removed: fewer columns, the others with their names, order and values.
C8_NoFragmentIsStrictSubset ==
    (/\ DidDescriptor(S_rdkit) \/ last.op = "rdkit_descriptors"
     /\ outcome.kind = "table")
        => LET other   == rdkit_descriptors(self.mols, ~self.use_fragment,
                                            self.ipc_avg, {})
               full    == IF self.use_fragment THEN outcome ELSE other
               reduced == IF self.use_fragment THEN other ELSE outcome
               keep    == PlainPositions(full.columns)
           IN  /\ other.kind = "table"
               /\ Len(reduced.columns) < Len(full.columns)
               /\ reduced.columns = [j \in 1..Len(keep) |-> full.columns[keep[j]]]
               /\ Len(reduced.rows) = Len(full.rows)
               /\ \A i \in 1..Len(full.rows) :
                     reduced.rows[i] = [j \in 1..Len(keep) |-> full.rows[i][keep[j]]]

C8_Witness ==
    /\ DidDescriptor(S_rdkit)
    /\ self.use_fragment = FALSE
    /\ self.ipc_avg = TRUE
    /\ Len(self.mols) = 2
    /\ outcome.kind = "table"
    /\ \E j \in 1..Len(outcome.columns) : outcome.columns[j] = IpcName

\* C9: compute_descriptor on a generator whose desc_type, lower-cased, is
\* none of the four selectors raises a ValueError whose message contains the
\* selector as given, returns no table and creates no temporary file.
C9_UnknownDescriptorIsValueError ==
    (/\ last.op = "compute_descriptor"
     /\ lower(self.desc_type) \notin DescriptorSelectors)
        => /\ outcome.kind = "raise"
           /\ outcome.exc = "ValueError"
           /\ Contains(outcome.msg, self.desc_type)
           /\ ~tmpExists

C9_Witness ==
    /\ last.op = "compute_descriptor"
    /\ lower(self.desc_type) \notin DescriptorSelectors
    /\ lower(self.desc_type) # self.desc_type
    /\ last.kwargs = {"mol"}
    /\ outcome.kind = "raise"

\* the calls that compute features molecule by molecule and reach the
\* molecules: the rdkit, rdkit_frag and padel selectors (the file opened, no
\* extra keyword) and the five fingerprint selectors
ReachedMolecules ==
    \/ /\ last.op = "compute_descriptor"
       /\ lower(self.desc_type) \in { S_rdkit, S_rdkit_frag, S_padel }
       /\ last.fault # "open"
       /\ lower(self.desc_type) = S_rdkit => last.kwargs = {}
    \/ last.op = "rdkit_descriptors" /\ last.kwargs = {}
    \/ DidFingerprint /\ self.fp_type \in CanonicalFpTypes

\* C10: when the feature computation of some molecule of the list raises,
\* compute_descriptor and compute_fingerprint raise that exception (that of
\* the first such molecule) and return no table, partial or otherwise.
C10_MoleculeFailureAbortsBatch ==
    (ReachedMolecules /\ AnyMalformed(self.mols))
        => /\ outcome.kind = "raise"
           /\ outcome.exc = "MolError"
           /\ outcome.msg = FirstMalformed(self.mols).smiles

C10_Witness ==
    /\ DidFingerprint
    /\ self.fp_type \in CanonicalFpTypes
    /\ Len(self.mols) = 2
    /\ ~self.mols[1].malformed
    /\ self.mols[2].malformed
    /\ outcome.kind = "raise"

\* the spelling rdkit_fingerprint_low knows of a selector that passes the
\* membership test of compute_fingerprint
CanonicalSpelling(fp_type) ==
    CHOOSE c \in CanonicalFpTypes : upper(c) = upper(fp_type)

\* C11: for every fp_type that passes the case-insensitive membership test,
\* compute_fingerprint does not raise NotImplementedError and gives what it
\* gives for the canonical spelling of that selector.
C11_CaseVariantsAreSupported ==
    (DidFingerprint /\ upper(self.fp_type) \in SupportedUpper)
        => LET canonical == compute_fingerprint(
                                [self EXCEPT !.fp_type = CanonicalSpelling(self.fp_type)])
           IN  /\ ~(outcome.kind = "raise" /\ outcome.exc = "NotImplementedError")
               /\ outcome.kind = canonical.kind
               /\ outcome.kind = "table" => outcome = canonical

====
